---- MODULE Spec2Model ----
(***************************************************************************)
(* Model of the fundability analyser: WebcamComponent (the sampling        *)
(* session driven by a 100 ms poll), App.handleScoreUpdate (the consumer   *)
(* of the session's updates) and the pure scoring functions.               *)
(*                                                                         *)
(* Numbers.  Confidence and expression probabilities are held in           *)
(* thousandths (900 stands for 0.9); intermediate real values are held in  *)
(* millionths (Micro); Math.sin / Math.cos are tabulated in millionths for *)
(* the arguments (in thousandths of a radian) the snapshots produce.       *)
(*                                                                         *)
(* React.  analysisStartTime, finalScoreCalculated (WebcamComponent) and   *)
(* isAnalysisComplete (App) are useState values: a function created        *)
(* during a render reads the values of THAT render.  The poll callback is  *)
(* created by the startFaceDetection that the effect of lines 170-177      *)
(* picked up, so it reads the state values (and the onScoreUpdate prop) of *)
(* the render in which that effect ran; the variable closure holds them.   *)
(* The four useRef cells are shared mutable cells and are read live.       *)
(***************************************************************************)
EXTENDS Integers, Sequences, FiniteSets, TLC

VARIABLES
    \* environment
    now,                    \* Date.now()
    playing,                \* the video is neither paused nor ended
    timers,                 \* active window.setInterval timers: id -> next firing time
    inflight,               \* poll callbacks suspended at await detectAllFaces
    \* WebcamComponent
    mounted,                \* the component has not been unmounted
    isModelLoaded,
    playListener,           \* startFaceDetection is registered for 'play' (line 174)
    closure,                \* the render values the registered startFaceDetection reads
    starts,                 \* calls of startFaceDetection so far (the last timer id)
    detectionIntervalRef,
    analysisStartTime,
    finalScoreCalculated,
    initialAnimatedScoreRef,
    finalAnimatedTargetScoreRef,
    initialAttributesRef,
    finalAttributesRef,
    \* App
    score,
    feedback,
    finalScore,
    finalFeedback,
    attributes,
    finalAttributes,
    isAnalysisComplete,
    \* history (written, never read, by the program's actions)
    lastTick,               \* what the most recent poll callback did
    session,                \* the run since the last startFaceDetection
    \* a pure function on its own: the call and what it returned
    fnCall,
    fnOut,
    \* ScoreDisplay
    pScore,                 \* the props of the latest render
    pFinalized,
    pAttributes,
    renders,                \* renders with new props so far
    displayScore,
    currentScoreRef,
    animationFrameRef,
    scoreCleanup,           \* the latest run of the score effect returned its cleanup
    displayAttributes,
    currentAttributesRef,
    rafTime,                \* the timestamp of the current animation frame
    rafIds,                 \* requestAnimationFrame calls so far (the last id)
    scoreFrames,            \* pending callbacks animate
    attributeFrames         \* pending callbacks animateAttributes

envVars == <<now, playing, timers, inflight>>
refVars == <<initialAnimatedScoreRef, finalAnimatedTargetScoreRef,
             initialAttributesRef, finalAttributesRef>>
webcamVars == <<mounted, isModelLoaded, playListener, closure, starts, detectionIntervalRef,
                analysisStartTime, finalScoreCalculated, refVars>>
appVars == <<score, feedback, finalScore, finalFeedback, attributes,
             finalAttributes, isAnalysisComplete>>
histVars == <<lastTick, session>>
pureVars == <<fnCall, fnOut>>
\* the variables the actions of the analyser leave alone
propVars == <<pScore, pFinalized, pAttributes, renders>>
displayVars == <<displayScore, currentScoreRef, animationFrameRef, scoreCleanup,
                 displayAttributes, currentAttributesRef>>
frameVars == <<rafTime, rafIds, scoreFrames, attributeFrames>>
animVars == <<propVars, displayVars, frameVars>>
apartVars == <<pureVars, animVars>>
vars == <<envVars, webcamVars, appVars, histVars, apartVars>>

\* A value that may be null (or undefined) is the empty sequence when it is
\* null and the one-element sequence of its value otherwise.
Null == <<>>
Some(v) == <<v>>
Get(o) == o[1]

\* ------------------------------------------------------------------ bounds
MaxNow == 7600          \* the clock stops advancing here
MaxStarts == 2          \* calls of startFaceDetection
MaxInflight == 2        \* detection requests awaiting their result
MaxFaces == 1           \* faces in one detection result
MaxRenders == 2         \* renders of ScoreDisplay with new props

\* --------------------------------------------------------------- constants
ANALYSIS_DURATION_MS == 5000
PollMs == 100
DURATION == 150
Milli == 10 * 10 * 10      \* thousandths: the unit of a probability
Micro == Milli * Milli     \* millionths: the unit of an intermediate real

TimeSteps == {ANALYSIS_DURATION_MS \div 2}

\* -------------------------------------------------------------- snapshots
Snap(c, h, n, s, a, su, di) ==
    [confidence |-> c, happy |-> h, neutral |-> n, sad |-> s,
     angry |-> a, surprised |-> su, disgusted |-> di]

SnapA == Snap(900, 800, 100, 0, 0, 0, 0)
SnapB == Snap(600, 100, 300, 500, 200, 0, 100)
SnapC == Snap(300, 200, 600, 100, 0, 400, 0)

Snapshots == {SnapA, SnapB}

DetectionLists ==
    {<<>>} \cup UNION {[1..k -> Snapshots] : k \in 1..MaxFaces}

Attrs(c, d, s) == [charisma |-> c, dumbness |-> d, single |-> s]

\* ------------------------------------------------------------- arithmetic
Min(a, b) == IF a < b THEN a ELSE b
Max(a, b) == IF a > b THEN a ELSE b
Abs(a) == IF a < 0 THEN -a ELSE a

\* Math.round of num/den (den > 0): floor(num/den + 1/2)
MathRound(num, den) == (2 * num + den) \div (2 * den)

SinTable ==
    (15000 :> 650288) @@ (27000 :> 956376) @@ (30000 :> -988032) @@
    (40000 :> 745113) @@ (42000 :> -916522) @@ (44000 :> 17702) @@
    (45000 :> 850904) @@ (46000 :> 901788) @@ (54000 :> -558789) @@
    (55000 :> -999755) @@ (65000 :> 826829) @@ (66000 :> -26551) @@
    (72500 :> -240974) @@ (76000 :> 566108) @@ (81000 :> -629888) @@
    (86000 :> -923458) @@ (130000 :> -930106) @@ (132500 :> 525335) @@
    (138000 :> -228052) @@ (140000 :> 980240) @@ (142000 :> -587795)

CosTable ==
    (21000 :> -547729) @@ (42000 :> -399985) @@ (63000 :> 985897)

\* Math.sin / Math.cos: argument in thousandths of a radian, value in millionths
MathSin(x) == SinTable[x]
MathCos(x) == CosTable[x]

\* Math.max(lo, Math.min(hi, v)) on a value in millionths, lo and hi whole
Clamp(lo, hi, v) == Max(lo * Micro, Min(hi * Micro, v))

\* --------------------------------------------------------- pure functions
calculateRawFundabilityScore(detection) ==
    \* line 180 (!detection) never holds: the callers pass detections[0] of a
    \* non-empty list
    LET confidence == detection.confidence
        baseScore == confidence * 50 * Milli
        expressionBonus == (detection.happy * 30 + detection.neutral * 15
                            + detection.surprised * 10) * Milli
        expressionPenalty == (detection.sad * 20 + detection.angry * 25) * Milli
        seedValue == confidence * 100 + detection.happy * 50 + detection.neutral * 25
        deterministicFactor == MathSin(seedValue) * 5
        totalScore == baseScore + expressionBonus - expressionPenalty
                      + deterministicFactor
    IN  MathRound(Clamp(0, 100, totalScore), Micro)

calculateAttributes(detection) ==
    LET confidence == detection.confidence
        charismaBase == Clamp(0, 100,
            (confidence * 40 + detection.happy * 40 + detection.surprised * 20) * Milli
            + MathSin(confidence * 50) * 10)
        dumbBase == Clamp(0, 100,
            ((Milli - detection.neutral) * 40 + detection.surprised * 30
             + detection.disgusted * 30) * Milli
            + MathCos(confidence * 70) * 15)
        singleBase == Clamp(0, 100,
            (detection.sad * 30 + detection.neutral * 25 + detection.angry * 25
             + (Milli - detection.happy) * 20) * Milli
            + MathSin(confidence * 90) * 10)
    IN  [charisma |-> MathRound(charismaBase, Micro),
         dumbness |-> MathRound(dumbBase, Micro),
         single |-> MathRound(singleBase, Micro)]

\* lines 243-251 for given shifts (in millionths)
AttributeTargetsFromShifts(initialAttrs, charismaShift, dumbShift, singleShift) ==
    LET charismaTarget == Clamp(10, 95, initialAttrs.charisma * Micro + charismaShift)
        dumbTarget == Clamp(5, 90, initialAttrs.dumbness * Micro + dumbShift)
        singleTarget == Clamp(15, 95, initialAttrs.single * Micro + singleShift)
    IN  [charisma |-> MathRound(charismaTarget, Micro),
         dumbness |-> MathRound(dumbTarget, Micro),
         single |-> MathRound(singleTarget, Micro)]

calculateDeterministicAttributeTargets(initialAttrs, detection) ==
    LET confidence == detection.confidence
        happy == detection.happy
        charismaShift == MathSin(confidence * 100 + happy * 60) * 15
        dumbShift == MathSin(confidence * 120 + happy * 40) * 12
        singleShift == MathSin(confidence * 140 + happy * 20) * 18
    IN  AttributeTargetsFromShifts(initialAttrs, charismaShift, dumbShift, singleShift)

\* interpolateAttributes with initial and target exchanged in the blend
interpolateAttributesSwapped(initial, target, progressNum) ==
    LET blend(i, t) ==
            MathRound(t * ANALYSIS_DURATION_MS + (i - t) * progressNum,
                      ANALYSIS_DURATION_MS)
    IN  [charisma |-> blend(initial.charisma, target.charisma),
         dumbness |-> blend(initial.dumbness, target.dumbness),
         single |-> blend(initial.single, target.single)]

\* progress is progressNum / ANALYSIS_DURATION_MS
interpolateAttributes(initial, target, progressNum) ==
    LET blend(i, t) ==
            MathRound(i * ANALYSIS_DURATION_MS + (t - i) * progressNum,
                      ANALYSIS_DURATION_MS)
    IN  [charisma |-> blend(initial.charisma, target.charisma),
         dumbness |-> blend(initial.dumbness, target.dumbness),
         single |-> blend(initial.single, target.single)]

\* feedbackMessages with the second band starting at 22
feedbackMessagesWithGap ==
    << [minScore |-> 0, maxScore |-> 20,
        message |-> "Even your screen protector is crying!"],
       [minScore |-> 22, maxScore |-> 40,
        message |-> "VCs might fund you... if you wore a paper bag."],
       [minScore |-> 41, maxScore |-> 60,
        message |-> "Middle of the pack. Try adding glasses?"],
       [minScore |-> 61, maxScore |-> 80,
        message |-> "Not bad! You could raise a decent seed round."],
       [minScore |-> 81, maxScore |-> 95,
        message |-> "Unicorn material! Silicon Valley is calling!"],
       [minScore |-> 96, maxScore |-> 100,
        message |-> "Are you Elon Musk's secret twin?!"] >>

feedbackMessages ==
    << [minScore |-> 0, maxScore |-> 20,
        message |-> "Even your screen protector is crying!"],
       [minScore |-> 21, maxScore |-> 40,
        message |-> "VCs might fund you... if you wore a paper bag."],
       [minScore |-> 41, maxScore |-> 60,
        message |-> "Middle of the pack. Try adding glasses?"],
       [minScore |-> 61, maxScore |-> 80,
        message |-> "Not bad! You could raise a decent seed round."],
       [minScore |-> 81, maxScore |-> 95,
        message |-> "Unicorn material! Silicon Valley is calling!"],
       [minScore |-> 96, maxScore |-> 100,
        message |-> "Are you Elon Musk's secret twin?!"] >>

getFeedbackMessage(s) ==
    LET matching == {i \in DOMAIN feedbackMessages :
                        s >= feedbackMessages[i].minScore
                        /\ s <= feedbackMessages[i].maxScore}
    IN  IF matching = {} THEN "Analyzing..."
        ELSE feedbackMessages[CHOOSE i \in matching :
                                \A j \in matching : i <= j].message

\* TargetScoreFromShift without the bounds of line 286
TargetScoreFromShiftUnbounded(initialScore, shiftFactor, confidence) ==
    LET shifted == initialScore * Micro + shiftFactor
        target == IF Abs(shiftFactor) < 3 * Micro
                  THEN shifted + (IF 2 * confidence > Milli THEN 5 ELSE -5) * Micro
                  ELSE shifted
    IN  MathRound(target, Micro)

\* lines 279-286 for a given shiftFactor (in millionths)
TargetScoreFromShift(initialScore, shiftFactor, confidence) ==
    LET shifted == initialScore * Micro + shiftFactor
        target == IF Abs(shiftFactor) < 3 * Micro
                  THEN shifted + (IF 2 * confidence > Milli THEN 5 ELSE -5) * Micro
                  ELSE shifted
    IN  MathRound(Clamp(15, 90, target), Micro)

calculateDeterministicTargetScore(initialScore, detection) ==
    LET confidence == detection.confidence
        happy == detection.happy
        shiftFactor == MathSin(confidence * 100 + happy * 50) * 15
    IN  TargetScoreFromShift(initialScore, shiftFactor, confidence)

\* ------------------------------------------------------------ JavaScript
\* x is truthy (x is a number or null here): neither null nor 0
Truthy(x) == x # Null /\ Get(x) # 0

\* ------------------------------------------------------------------- App
\* The App state one handleScoreUpdate works on and returns.
AppState ==
    [score |-> score, feedback |-> feedback, finalScore |-> finalScore,
     finalFeedback |-> finalFeedback, attributes |-> attributes,
     finalAttributes |-> finalAttributes, isAnalysisComplete |-> isAnalysisComplete]

\* handleScoreUpdate created in a render whose isAnalysisComplete was
\* renderIsAnalysisComplete, applied to the current App state st.
handleScoreUpdate(renderIsAnalysisComplete, st, newScore, newFeedback, isFinal, newAttributes) ==
    IF renderIsAnalysisComplete THEN st
    ELSE IF isFinal THEN
        [st EXCEPT !.finalScore = Some(newScore),
                   !.finalFeedback = newFeedback,
                   !.score = Some(newScore),
                   !.feedback = newFeedback,
                   !.finalAttributes =
                        IF newAttributes # Null THEN newAttributes ELSE @,
                   !.attributes =
                        IF newAttributes # Null THEN newAttributes ELSE @,
                   !.isAnalysisComplete = TRUE]
    ELSE
        [st EXCEPT !.score = Some(newScore),
                   !.feedback = newFeedback,
                   !.attributes =
                        IF newAttributes # Null THEN newAttributes ELSE @]

\* The calls of one poll callback, in order, through the onScoreUpdate prop
\* the callback holds.
RECURSIVE ApplyCalls(_, _, _)
ApplyCalls(renderIsAnalysisComplete, st, calls) ==
    IF calls = <<>> THEN st
    ELSE ApplyCalls(renderIsAnalysisComplete,
                    handleScoreUpdate(renderIsAnalysisComplete, st,
                                      Head(calls).score, Head(calls).feedback,
                                      Head(calls).isFinal, Head(calls).attributes),
                    Tail(calls))

SetApp(st) ==
    /\ score' = st.score
    /\ feedback' = st.feedback
    /\ finalScore' = st.finalScore
    /\ finalFeedback' = st.finalFeedback
    /\ attributes' = st.attributes
    /\ finalAttributes' = st.finalAttributes
    /\ isAnalysisComplete' = st.isAnalysisComplete

\* ------------------------------------------------------- WebcamComponent
OnUpdate(s, isFinal, attrs) ==
    [score |-> s, feedback |-> getFeedbackMessage(s), isFinal |-> isFinal,
     attributes |-> attrs]

\* Line 391, in 5000ths: progress = Math.min(1, timeElapsed / 5000).
ProgressNum(timeElapsed) == Min(ANALYSIS_DURATION_MS, timeElapsed)

\* currentDisplayScore with initial and target exchanged
currentDisplayScoreSwapped(initial, target, progressNum) ==
    LET animatedScore == target * ANALYSIS_DURATION_MS
                         + (initial - target) * progressNum
    IN  MathRound(Max(0, Min(100 * ANALYSIS_DURATION_MS, animatedScore)),
                  ANALYSIS_DURATION_MS)

\* Lines 393-396: the score shown at progress progressNum / 5000.
currentDisplayScore(initial, target, progressNum) ==
    LET animatedScore == initial * ANALYSIS_DURATION_MS
                         + (target - initial) * progressNum
    IN  MathRound(Max(0, Min(100 * ANALYSIS_DURATION_MS, animatedScore)),
                  ANALYSIS_DURATION_MS)

\* NonFinalUpdate with the attributes measured from the target
NonFinalUpdateFromTarget(iScore, tScore, iAttrs, tAttrs, timeElapsed) ==
    LET progressNum == ProgressNum(timeElapsed)
        over(i, t) == MathRound(t * ANALYSIS_DURATION_MS + (t - i) * progressNum,
                                ANALYSIS_DURATION_MS)
    IN  OnUpdate(currentDisplayScore(iScore, tScore, progressNum), FALSE,
                 Some([charisma |-> over(iAttrs.charisma, tAttrs.charisma),
                       dumbness |-> over(iAttrs.dumbness, tAttrs.dumbness),
                       single |-> over(iAttrs.single, tAttrs.single)]))

\* Lines 391-405: the call made before the run is over.
NonFinalUpdate(iScore, tScore, iAttrs, tAttrs, timeElapsed) ==
    LET progressNum == ProgressNum(timeElapsed)
    IN  OnUpdate(currentDisplayScore(iScore, tScore, progressNum), FALSE,
                 Some(interpolateAttributes(iAttrs, tAttrs, progressNum)))

\* Lines 378-382: the call made when the run is over.
FinalUpdate(finalScoreV, finalAttributesV) ==
    OnUpdate(finalScoreV, TRUE, Some(finalAttributesV))

\* Lines 372-406 with the four refs set: the call a poll callback makes.
EmittedUpdate(iScore, tScore, iAttrs, tAttrs, timeElapsed) ==
    IF timeElapsed >= ANALYSIS_DURATION_MS
    THEN FinalUpdate(tScore, tAttrs)
    ELSE NonFinalUpdate(iScore, tScore, iAttrs, tAttrs, timeElapsed)

\* What a poll callback that writes nothing and calls nothing leaves.
NoEffect(outcome) ==
    [analysisStartTime |-> analysisStartTime,
     finalScoreCalculated |-> finalScoreCalculated,
     initialScore |-> initialAnimatedScoreRef,
     targetScore |-> finalAnimatedTargetScoreRef,
     initialAttrs |-> initialAttributesRef,
     targetAttrs |-> finalAttributesRef,
     timeElapsed |-> Null,
     calls |-> <<>>,
     outcome |-> outcome]

\* Lines 347-407 of one poll callback, for the first face person: cl the
\* render values the callback reads, currentTime its line 307, dateNow the
\* clock when the detections arrived.  Returns the state and refs it leaves
\* and the onScoreUpdate calls it makes.
PollPerson(cl, currentTime, dateNow, person) ==
    LET same == NoEffect("finalized")
    IN
    IF cl.finalScoreCalculated THEN same
    ELSE
    LET initialise == cl.analysisStartTime = Null
        newInitialScore == calculateRawFundabilityScore(person)
        newInitialAttrs == calculateAttributes(person)
        \* the refs after lines 351-368
        iScore == IF initialise THEN Some(newInitialScore)
                  ELSE initialAnimatedScoreRef
        tScore == IF initialise
                  THEN Some(calculateDeterministicTargetScore(newInitialScore, person))
                  ELSE finalAnimatedTargetScoreRef
        iAttrs == IF initialise THEN Some(newInitialAttrs) ELSE initialAttributesRef
        tAttrs == IF initialise
                  THEN Some(calculateDeterministicAttributeTargets(newInitialAttrs,
                                                                   person))
                  ELSE finalAttributesRef
        startState == IF initialise THEN Some(dateNow) ELSE analysisStartTime
        timeElapsed == currentTime - (IF Truthy(cl.analysisStartTime)
                                      THEN Get(cl.analysisStartTime)
                                      ELSE currentTime)
        after == [same EXCEPT !.analysisStartTime = startState,
                              !.initialScore = iScore,
                              !.targetScore = tScore,
                              !.initialAttrs = iAttrs,
                              !.targetAttrs = tAttrs,
                              !.timeElapsed = Some(timeElapsed)]
    IN
    IF timeElapsed >= ANALYSIS_DURATION_MS THEN
        LET finalScoreV == IF tScore # Null THEN Get(tScore)
                           ELSE calculateRawFundabilityScore(person)
            finalAttributesV == IF tAttrs # Null THEN Get(tAttrs)
                                ELSE calculateAttributes(person)
        IN  [after EXCEPT !.finalScoreCalculated = TRUE,
                          !.calls = <<FinalUpdate(finalScoreV, finalAttributesV)>>,
                          !.outcome = "final"]
    ELSE IF iScore # Null /\ tScore # Null /\ iAttrs # Null /\ tAttrs # Null THEN
        [after EXCEPT !.calls = <<NonFinalUpdate(Get(iScore), Get(tScore),
                                                 Get(iAttrs), Get(tAttrs),
                                                 timeElapsed)>>,
                      !.outcome = "update"]
    ELSE [after EXCEPT !.outcome = "silent"]

\* PollBody that reports a score of 0 when no face is found
PollBodyScoresNoFace(cl, currentTime, dateNow, detections) ==
    IF Len(detections) > 0
    THEN PollPerson(cl, currentTime, dateNow, detections[1])
    ELSE [NoEffect("update") EXCEPT !.calls = <<OnUpdate(0, FALSE, Null)>>]

\* PollBody reading analysisStartTime and finalScoreCalculated as they are
\* when the detections arrive
PollBodyReadsCurrentState(cl, currentTime, dateNow, detections) ==
    IF Len(detections) > 0
    THEN PollPerson([cl EXCEPT !.analysisStartTime = analysisStartTime,
                               !.finalScoreCalculated = finalScoreCalculated],
                    currentTime, dateNow, detections[1])
    ELSE NoEffect("empty")

\* Lines 318-408: nothing is done unless the detection list is non-empty.
PollBody(cl, currentTime, dateNow, detections) ==
    IF Len(detections) > 0
    THEN PollPerson(cl, currentTime, dateNow, detections[1])
    ELSE NoEffect("empty")

NoTick ==
    [outcome |-> "none", currentTime |-> Null, dateNow |-> Null, person |-> Null,
     timeElapsed |-> Null, calls |-> <<>>, timer |-> Null]

\* start, person: the clock and the first face of the first poll callback
\* since the last startFaceDetection that had a face; detected, updates,
\* finals: how many callbacks had a face, and how many non-final and final
\* onScoreUpdate calls were made, since then (counted up to 2); clean: no
\* callback since then was without a face; previous: person of the latest
\* earlier run that had a face.
NewSession ==
    [start |-> Null, person |-> Null, clean |-> TRUE, detected |-> 0,
     updates |-> 0, finals |-> 0, previous |-> Null]

\* startFaceDetection without lines 301-304: the four refs are kept
startFaceDetectionKeepsRefs ==
    LET id == starts + 1
        kept == DOMAIN timers \ {Get(detectionIntervalRef) : x \in DOMAIN detectionIntervalRef}
    IN
    /\ starts' = id
    /\ timers' = [t \in kept \cup {id} |->
                    IF t = id THEN now + PollMs ELSE timers[t]]
    /\ detectionIntervalRef' = Some(id)
    /\ analysisStartTime' = Null
    /\ finalScoreCalculated' = FALSE
    /\ UNCHANGED refVars
    /\ lastTick' = NoTick
    /\ session' = [NewSession EXCEPT !.previous = IF session.person # Null
                                               THEN session.person
                                               ELSE session.previous]

\* startFaceDetection without lines 303-304: the attribute refs are kept
startFaceDetectionKeepsAttributeRefs ==
    LET id == starts + 1
        kept == DOMAIN timers \ {Get(detectionIntervalRef) : x \in DOMAIN detectionIntervalRef}
    IN
    /\ starts' = id
    /\ timers' = [t \in kept \cup {id} |->
                    IF t = id THEN now + PollMs ELSE timers[t]]
    /\ detectionIntervalRef' = Some(id)
    /\ analysisStartTime' = Null
    /\ finalScoreCalculated' = FALSE
    /\ initialAnimatedScoreRef' = Null
    /\ finalAnimatedTargetScoreRef' = Null
    /\ UNCHANGED <<initialAttributesRef, finalAttributesRef>>
    /\ lastTick' = NoTick
    /\ session' = [NewSession EXCEPT !.previous = IF session.person # Null
                                               THEN session.person
                                               ELSE session.previous]

\* startFaceDetection without line 297: the old timer is left running
startFaceDetectionKeepsTimer ==
    LET id == starts + 1
    IN
    /\ starts' = id
    /\ timers' = [t \in DOMAIN timers \cup {id} |->
                    IF t = id THEN now + PollMs ELSE timers[t]]
    /\ detectionIntervalRef' = Some(id)
    /\ analysisStartTime' = Null
    /\ finalScoreCalculated' = FALSE
    /\ initialAnimatedScoreRef' = Null
    /\ finalAnimatedTargetScoreRef' = Null
    /\ initialAttributesRef' = Null
    /\ finalAttributesRef' = Null
    /\ lastTick' = NoTick
    /\ session' = [NewSession EXCEPT !.previous = IF session.person # Null
                                               THEN session.person
                                               ELSE session.previous]

\* startFaceDetection, lines 290-306 and 412: the old timer is cleared, the
\* state and the refs are reset, a new timer is set.
startFaceDetection ==
    LET id == starts + 1
        \* line 297; timer ids are positive, hence truthy
        kept == DOMAIN timers \ {Get(detectionIntervalRef) : x \in DOMAIN detectionIntervalRef}
    IN
    /\ starts' = id
    /\ timers' = [t \in kept \cup {id} |->
                    IF t = id THEN now + PollMs ELSE timers[t]]
    /\ detectionIntervalRef' = Some(id)
    /\ analysisStartTime' = Null
    /\ finalScoreCalculated' = FALSE
    /\ initialAnimatedScoreRef' = Null
    /\ finalAnimatedTargetScoreRef' = Null
    /\ initialAttributesRef' = Null
    /\ finalAttributesRef' = Null
    /\ lastTick' = NoTick
    /\ session' = [NewSession EXCEPT !.previous = IF session.person # Null
                                               THEN session.person
                                               ELSE session.previous]

\* --------------------------------------------------------------- actions
InitAnalyser ==
    /\ now = 0
    /\ playing \in BOOLEAN
    /\ timers = <<>>
    /\ inflight = {}
    /\ isModelLoaded = FALSE
    /\ playListener = FALSE
    /\ mounted = TRUE
    /\ closure = Null
    /\ starts = 0
    /\ detectionIntervalRef = Null
    /\ analysisStartTime = Null
    /\ finalScoreCalculated = FALSE
    /\ initialAnimatedScoreRef = Null
    /\ finalAnimatedTargetScoreRef = Null
    /\ initialAttributesRef = Null
    /\ finalAttributesRef = Null
    /\ score = Null
    /\ feedback = ""
    /\ finalScore = Null
    /\ finalFeedback = ""
    /\ attributes = Null
    /\ finalAttributes = Null
    /\ isAnalysisComplete = FALSE
    /\ lastTick = NoTick
    /\ session = NewSession

InitPure ==
    /\ fnCall = Null
    /\ fnOut = Null

\* ScoreDisplay after its first render (score and attributes null): the
\* score effect took its first return.
InitAnimator ==
    /\ pScore = Null
    /\ pFinalized = FALSE
    /\ pAttributes = Null
    /\ renders = 0
    /\ displayScore = 0
    /\ currentScoreRef = 0
    /\ animationFrameRef = Null
    /\ scoreCleanup = FALSE
    /\ displayAttributes = Attrs(0, 0, 0)
    /\ currentAttributesRef = Attrs(0, 0, 0)
    /\ rafTime = 0
    /\ rafIds = 0
    /\ scoreFrames = {}
    /\ attributeFrames = {}

Init ==
    /\ InitAnalyser
    /\ InitPure
    /\ InitAnimator

\* loadModels resolves (lines 154-164); the render with isModelLoaded = true
\* creates the startFaceDetection that the effect of lines 170-177 either
\* calls at once (readyState = 4) or registers for 'play'.
LoadModels(ready) ==
    /\ mounted
    /\ ~isModelLoaded
    /\ isModelLoaded' = TRUE
    /\ closure' = Some([analysisStartTime |-> analysisStartTime,
                        finalScoreCalculated |-> finalScoreCalculated,
                        isAnalysisComplete |-> isAnalysisComplete])
    /\ IF ready
       THEN /\ startFaceDetection
            /\ playListener' = FALSE
       ELSE /\ playListener' = TRUE
            /\ UNCHANGED <<timers, starts, detectionIntervalRef, analysisStartTime,
                           finalScoreCalculated, refVars, histVars>>
    /\ UNCHANGED <<now, playing, inflight, mounted, appVars, apartVars>>

\* the video starts playing: the 'play' event runs the registered listener
Play ==
    /\ mounted
    /\ ~playing
    /\ playing' = TRUE
    /\ IF playListener
       THEN /\ starts < MaxStarts
            /\ startFaceDetection
       ELSE UNCHANGED <<timers, starts, detectionIntervalRef, analysisStartTime,
                        finalScoreCalculated, refVars, histVars>>
    /\ UNCHANGED <<now, inflight, mounted, isModelLoaded, playListener, closure,
                   appVars, apartVars>>

Pause ==
    /\ mounted
    /\ playing
    /\ playing' = FALSE
    /\ UNCHANGED <<now, timers, inflight, webcamVars, appVars, histVars, apartVars>>

Advance(d) ==
    /\ now + d <= MaxNow
    /\ now' = now + d
    /\ UNCHANGED <<playing, timers, inflight, webcamVars, appVars, histVars,
                   apartVars>>

\* a timer fires: lines 306-313 up to the await
PollStart(t) ==
    /\ t \in DOMAIN timers
    /\ now >= timers[t]
    /\ Cardinality(inflight) < MaxInflight
    /\ timers' = [timers EXCEPT ![t] = now + PollMs]
    /\ IF playing
       THEN /\ inflight' = inflight \cup {[currentTime |-> now, timer |-> t]}
            /\ UNCHANGED histVars
       ELSE /\ UNCHANGED inflight
            /\ lastTick' = [NoTick EXCEPT !.outcome = "paused",
                                             !.currentTime = Some(now),
                                             !.timer = Some(t)]
            /\ session' = [session EXCEPT !.clean = FALSE]
    /\ UNCHANGED <<now, playing, webcamVars, appVars, apartVars>>

\* detectAllFaces resolves with detections: lines 315-408.  The callback
\* reads analysisStartTime, finalScoreCalculated and onScoreUpdate from the
\* render that created it (closure); it reads and writes the refs live.
PollResult(req, detections) ==
    /\ req \in inflight
    /\ inflight' = inflight \ {req}
    /\ LET r == PollBody(Get(closure), req.currentTime, now, detections)
           usable == Len(detections) > 0
       IN
       \* a state setter of a component that is no longer mounted does nothing
       /\ analysisStartTime' = IF mounted THEN r.analysisStartTime
                               ELSE analysisStartTime
       /\ finalScoreCalculated' = IF mounted THEN r.finalScoreCalculated
                                  ELSE finalScoreCalculated
       /\ initialAnimatedScoreRef' = r.initialScore
       /\ finalAnimatedTargetScoreRef' = r.targetScore
       /\ initialAttributesRef' = r.initialAttrs
       /\ finalAttributesRef' = r.targetAttrs
       /\ SetApp(ApplyCalls(Get(closure).isAnalysisComplete, AppState, r.calls))
       /\ lastTick' = [outcome |-> r.outcome,
                       currentTime |-> Some(req.currentTime),
                       dateNow |-> Some(now),
                       person |-> IF usable THEN Some(detections[1]) ELSE Null,
                       timeElapsed |-> r.timeElapsed, calls |-> r.calls,
                       timer |-> Some(req.timer)]
       /\ session' =
            IF ~usable THEN [session EXCEPT !.clean = FALSE]
            ELSE [session EXCEPT
                    !.start = IF @ = Null THEN Some(now) ELSE @,
                    !.person = IF @ = Null THEN Some(detections[1]) ELSE @,
                    !.detected = Min(2, @ + 1),
                    !.updates = IF r.outcome = "update" THEN Min(2, @ + 1) ELSE @,
                    !.finals = IF r.outcome = "final" THEN Min(2, @ + 1) ELSE @]
    /\ UNCHANGED <<now, playing, timers, mounted, isModelLoaded, playListener,
                   closure, starts, detectionIntervalRef, apartVars>>

\* PollThrows with an error that ends the polling
PollThrowsStopsPolling(req) ==
    /\ req \in inflight
    /\ inflight' = inflight \ {req}
    /\ timers' = <<>>
    /\ lastTick' = [NoTick EXCEPT !.outcome = "error",
                                  !.currentTime = Some(req.currentTime),
                                  !.dateNow = Some(now),
                                  !.timer = Some(req.timer)]
    /\ session' = [session EXCEPT !.clean = FALSE]
    /\ UNCHANGED <<now, playing, webcamVars, appVars, apartVars>>

\* detectAllFaces (or a later step of the callback before any write) throws:
\* lines 310 and 409-411
PollThrows(req) ==
    /\ req \in inflight
    /\ inflight' = inflight \ {req}
    /\ lastTick' = [NoTick EXCEPT !.outcome = "error",
                                  !.currentTime = Some(req.currentTime),
                                  !.dateNow = Some(now),
                                  !.timer = Some(req.timer)]
    /\ session' = [session EXCEPT !.clean = FALSE]
    /\ UNCHANGED <<now, playing, timers, webcamVars, appVars, apartVars>>

\* WebcamComponent is unmounted: the cleanups of lines 165-167 (the timer
\* is cleared) and 175 (the 'play' listener is removed) run; the video
\* element is gone.
Unmount ==
    /\ mounted
    /\ mounted' = FALSE
    /\ timers' = [t \in DOMAIN timers \ {Get(detectionIntervalRef) : x \in DOMAIN detectionIntervalRef}
                    |-> timers[t]]
    /\ playListener' = FALSE
    /\ UNCHANGED <<now, playing, inflight, isModelLoaded, closure, starts,
                   detectionIntervalRef, analysisStartTime, finalScoreCalculated,
                   refVars, appVars, histVars, apartVars>>

Next ==
    \/ \E ready \in BOOLEAN : LoadModels(ready)
    \/ Unmount
    \/ Play
    \/ Pause
    \/ \E d \in TimeSteps : Advance(d)
    \/ \E t \in DOMAIN timers : PollStart(t)
    \/ \E req \in inflight, detections \in DetectionLists : PollResult(req, detections)
    \/ \E req \in inflight : PollThrows(req)

Spec == Init /\ [][Next]_vars

\* ------------------------------------------------- the consumer on its own
\* App with any producer behind the onScoreUpdate prop: the producer is the
\* poll callback of WebcamComponent, which calls the handleScoreUpdate it
\* received as a prop in the render its startFaceDetection was created in.
ConsumerScores == {0, 21, 59, 73, 100}
ConsumerAttributes ==
    {Null} \cup {Some(calculateAttributes(p)) : p \in Snapshots}

OnScoreUpdateCall(newScore, isFinal, newAttributes) ==
    \* the caller is a poll callback: startFaceDetection has set a timer
    /\ closure # Null
    /\ starts >= 1
    /\ SetApp(handleScoreUpdate(Get(closure).isAnalysisComplete, AppState, newScore,
                                getFeedbackMessage(newScore), isFinal, newAttributes))
    /\ session' = [session EXCEPT
                        !.updates = IF isFinal THEN @ ELSE Min(2, @ + 1),
                        !.finals = IF isFinal THEN Min(2, @ + 1) ELSE @]
    /\ UNCHANGED <<envVars, webcamVars, lastTick, apartVars>>

NextConsumer ==
    \/ \E ready \in BOOLEAN : LoadModels(ready)
    \/ Play
    \/ Pause
    \/ \E newScore \in ConsumerScores, isFinal \in BOOLEAN,
          newAttributes \in ConsumerAttributes :
            OnScoreUpdateCall(newScore, isFinal, newAttributes)

SpecConsumer == Init /\ [][NextConsumer]_vars

\* ------------------------------------------- the pure functions on their own
\* One call of a pure function: Init draws the call, the action applies the
\* function as the analyser defines it.
ElapsedSamples ==
    {0, 1, ANALYSIS_DURATION_MS \div 2, ANALYSIS_DURATION_MS - 1,
     ANALYSIS_DURATION_MS, ANALYSIS_DURATION_MS + ANALYSIS_DURATION_MS \div 2}
InitialScoreSamples == {0, 1, 50, 99, 100}
TargetScoreSamples == {15, 52, 90}
InitialAttributeSamples == {Attrs(0, 0, 0), Attrs(50, 100, 1), Attrs(100, 100, 100)}
TargetAttributeSamples == {Attrs(10, 5, 15), Attrs(95, 90, 95), Attrs(10, 90, 47)}

EmittedUpdateCalls ==
    {[fn |-> "EmittedUpdate", args |-> <<i, t, iA, tA, e>>] :
        i \in InitialScoreSamples, t \in TargetScoreSamples,
        iA \in InitialAttributeSamples, tA \in TargetAttributeSamples,
        e \in ElapsedSamples}

\* Math.sin(...) * 15, in millionths: the ends of its range, the two sides
\* of the |shiftFactor| < 3 test and of 0
ShiftFactorSamples ==
    {-15 * Micro, -3 * Micro, -3 * Micro + 1, -1, 0, 1, 3 * Micro - 1, 3 * Micro,
     15 * Micro}
\* detection.detection.score on the two sides of the confidence > 0.5 test
ConfidenceSamples == {Milli \div 2, Milli \div 2 + 1}
\* Math.sin(...), in millionths
SineSamples == {-Micro, -(Micro \div 2), 0, Micro \div 2, Micro}

TargetScoreCalls ==
    {[fn |-> "TargetScoreFromShift", args |-> <<i, sh, c>>] :
        i \in 0..100, sh \in ShiftFactorSamples, c \in ConfidenceSamples}

AttributeTargetsCalls ==
    {[fn |-> "AttributeTargetsFromShifts",
      args |-> <<Attrs(v, v, v), 15 * sine, 12 * sine, 18 * sine>>] :
        v \in 0..100, sine \in SineSamples}

FeedbackCalls == {[fn |-> "getFeedbackMessage", args |-> <<s>>] : s \in 0..100}

InterpolationCalls ==
    {[fn |-> "interpolate",
      args |-> <<a, b, Attrs(a, b, 100 - a), Attrs(b, 100 - b, a)>>] :
        a \in 0..100, b \in 0..100}

Returns(fn, result) ==
    /\ fnCall # Null
    /\ fnOut = Null
    /\ fnCall.fn = fn
    /\ fnOut' = Some(result)
    /\ UNCHANGED <<fnCall, envVars, webcamVars, appVars, histVars, animVars>>

CallEmittedUpdate ==
    Returns("EmittedUpdate",
            EmittedUpdate(fnCall.args[1], fnCall.args[2], fnCall.args[3],
                          fnCall.args[4], fnCall.args[5]))

CallTargetScoreFromShift ==
    Returns("TargetScoreFromShift",
            TargetScoreFromShift(fnCall.args[1], fnCall.args[2], fnCall.args[3]))

CallAttributeTargetsFromShifts ==
    Returns("AttributeTargetsFromShifts",
            AttributeTargetsFromShifts(fnCall.args[1], fnCall.args[2],
                                       fnCall.args[3], fnCall.args[4]))

CallGetFeedbackMessage ==
    Returns("getFeedbackMessage", getFeedbackMessage(fnCall.args[1]))

\* the score of lines 393-396 and interpolateAttributes, at progress 0 and 1
CallInterpolation ==
    Returns("interpolate",
            [score0 |-> currentDisplayScore(fnCall.args[1], fnCall.args[2], 0),
             score1 |-> currentDisplayScore(fnCall.args[1], fnCall.args[2],
                                            ANALYSIS_DURATION_MS),
             attributes0 |-> interpolateAttributes(fnCall.args[3], fnCall.args[4], 0),
             attributes1 |-> interpolateAttributes(fnCall.args[3], fnCall.args[4],
                                                   ANALYSIS_DURATION_MS)])

InitPureCalls ==
    /\ InitAnalyser
    /\ InitAnimator
    /\ ~playing
    /\ fnOut = Null
    /\ \/ fnCall \in EmittedUpdateCalls
       \/ fnCall \in TargetScoreCalls
       \/ fnCall \in AttributeTargetsCalls
       \/ fnCall \in FeedbackCalls
       \/ fnCall \in InterpolationCalls

NextPure ==
    \/ CallEmittedUpdate
    \/ CallTargetScoreFromShift
    \/ CallAttributeTargetsFromShifts
    \/ CallGetFeedbackMessage
    \/ CallInterpolation

SpecPure == InitPureCalls /\ [][NextPure]_vars

\* ------------------------------------------------------------ ScoreDisplay
\* ScoreDisplay with any parent behind its props.  Animation frames: the
\* browser runs the callbacks requested before a frame in the order they
\* were requested, all with the timestamp of the frame; a callback requested
\* during a frame runs in a later one.  Renders happen between frames.
FrameSteps == {DURATION \div 2}
AnimatorScores == {30, 80}
AnimatorAttributes == {Attrs(77, 51, 0), Attrs(18, 25, 40)}

\* AnimatedValue with easeOutQuad(t) = t * (1 - t)
AnimatedValueEaseFalls(startValue, target, elapsed) ==
    LET e == Min(DURATION, elapsed)
    IN  MathRound(startValue * DURATION * DURATION
                    + (target - startValue) * e * (DURATION - e),
                  DURATION * DURATION)

\* AnimatedValue with easeOutQuad(t) = t * (3 - t)
AnimatedValueOvershoots(startValue, target, elapsed) ==
    LET e == Min(DURATION, elapsed)
    IN  MathRound(startValue * DURATION * DURATION
                    + (target - startValue) * e * (3 * DURATION - e),
                  DURATION * DURATION)

\* Math.round(startValue + (target - startValue) * easeOutQuad(progress)),
\* progress = Math.min(1, elapsed / DURATION), easeOutQuad(t) = t * (2 - t)
AnimatedValue(startValue, target, elapsed) ==
    LET e == Min(DURATION, elapsed)
    IN  MathRound(startValue * DURATION * DURATION
                    + (target - startValue) * e * (2 * DURATION - e),
                  DURATION * DURATION)

NewFrame(id, startTime, startValue, target) ==
    [id |-> id, requested |-> rafTime, startTime |-> startTime,
     startValue |-> startValue, target |-> target]

Due(f) == rafTime > f.requested
DueIds == {f.id : f \in {g \in scoreFrames : Due(g)}}
            \cup {f.id : f \in {g \in attributeFrames : Due(g)}}
FirstDue(f) == Due(f) /\ \A i \in DueIds : f.id <= i

Cancelled(frames, ref) == {f \in frames : Some(f.id) # ref}

\* The score effect (lines 30-81) of a render with props newScore and
\* newFinal: the cleanup of its previous run, then its body.
ScoreEffect(newScore, newFinal) ==
    LET afterCleanup == IF scoreCleanup /\ animationFrameRef # Null
                        THEN Cancelled(scoreFrames, animationFrameRef)
                        ELSE scoreFrames
    IN
    IF newScore = Null THEN
        /\ displayScore' = 0
        /\ currentScoreRef' = 0
        /\ scoreFrames' = afterCleanup
        /\ scoreCleanup' = FALSE
        /\ UNCHANGED animationFrameRef
    ELSE IF newFinal THEN
        /\ displayScore' = Get(newScore)
        /\ currentScoreRef' = Get(newScore)
        /\ scoreFrames' = Cancelled(afterCleanup, animationFrameRef)
        /\ animationFrameRef' = Null
        /\ scoreCleanup' = FALSE
    ELSE
        /\ scoreFrames' = Cancelled(afterCleanup, animationFrameRef)
                            \cup {NewFrame(rafIds + 1, Null, currentScoreRef,
                                           Get(newScore))}
        /\ animationFrameRef' = Some(rafIds + 1)
        /\ scoreCleanup' = TRUE
        /\ UNCHANGED <<displayScore, currentScoreRef>>

\* The attributes effect (lines 84-125) of a render with props newAttributes
\* and newFinal; id is the id its requestAnimationFrame returns.
AttributesEffect(newAttributes, newFinal, id) ==
    IF newAttributes = Null THEN
        UNCHANGED <<displayAttributes, currentAttributesRef, attributeFrames>>
    ELSE IF newFinal THEN
        /\ displayAttributes' = Get(newAttributes)
        /\ currentAttributesRef' = Get(newAttributes)
        /\ UNCHANGED attributeFrames
    ELSE
        /\ attributeFrames' = attributeFrames
                                \cup {NewFrame(id, Null, currentAttributesRef,
                                               Get(newAttributes))}
        /\ UNCHANGED <<displayAttributes, currentAttributesRef>>

\* The parent renders ScoreDisplay with a score, with isFinalized and either
\* the attributes object of the render before (attributesUpdate null) or a
\* new one.  An effect runs when one of its dependencies changed.
Render(newScore, newFinal, attributesUpdate) ==
    LET newAttributes == IF attributesUpdate # Null THEN attributesUpdate
                         ELSE pAttributes
        scoreRuns == Some(newScore) # pScore \/ newFinal # pFinalized
        attributesRun == attributesUpdate # Null \/ newFinal # pFinalized
        scoreRequests == scoreRuns /\ ~newFinal
        attributesRequest == attributesRun /\ newAttributes # Null /\ ~newFinal
        attributesId == IF scoreRequests THEN rafIds + 2 ELSE rafIds + 1
    IN
    /\ renders < MaxRenders
    /\ ~pFinalized
    /\ DueIds = {}
    /\ scoreRuns \/ attributesRun
    /\ renders' = renders + 1
    /\ pScore' = Some(newScore)
    /\ pFinalized' = newFinal
    /\ pAttributes' = newAttributes
    /\ IF scoreRuns THEN ScoreEffect(Some(newScore), newFinal)
       ELSE UNCHANGED <<displayScore, currentScoreRef, animationFrameRef,
                        scoreCleanup, scoreFrames>>
    /\ IF attributesRun THEN AttributesEffect(newAttributes, newFinal, attributesId)
       ELSE UNCHANGED <<displayAttributes, currentAttributesRef, attributeFrames>>
    /\ rafIds' = rafIds + (IF scoreRequests THEN 1 ELSE 0)
                        + (IF attributesRequest THEN 1 ELSE 0)
    /\ UNCHANGED <<rafTime, envVars, webcamVars, appVars, histVars, pureVars>>

\* the browser starts the next animation frame
AnimationFrame(d) ==
    /\ scoreFrames # {} \/ attributeFrames # {}
    /\ DueIds = {}
    /\ rafTime' = rafTime + d
    /\ UNCHANGED <<propVars, displayVars, rafIds, scoreFrames, attributeFrames,
                   envVars, webcamVars, appVars, histVars, pureVars>>

\* animate (lines 55-72) runs
Animate(f) ==
    LET startTime == IF f.startTime = Null THEN rafTime ELSE Get(f.startTime)
        elapsed == rafTime - startTime
        newDisplayScore == AnimatedValue(f.startValue, f.target, elapsed)
    IN
    /\ f \in scoreFrames
    /\ FirstDue(f)
    /\ displayScore' = newDisplayScore
    /\ currentScoreRef' = newDisplayScore
    /\ IF elapsed < DURATION
       THEN /\ rafIds' = rafIds + 1
            /\ animationFrameRef' = Some(rafIds + 1)
            /\ scoreFrames' = (scoreFrames \ {f})
                                \cup {NewFrame(rafIds + 1, Some(startTime),
                                               f.startValue, f.target)}
       ELSE /\ animationFrameRef' = Null
            /\ scoreFrames' = scoreFrames \ {f}
            /\ UNCHANGED rafIds
    /\ UNCHANGED <<propVars, scoreCleanup, displayAttributes, currentAttributesRef,
                   rafTime, attributeFrames,
                   envVars, webcamVars, appVars, histVars, pureVars>>

\* animateAttributes (lines 102-122) runs
AnimateAttributes(f) ==
    LET startTime == IF f.startTime = Null THEN rafTime ELSE Get(f.startTime)
        elapsed == rafTime - startTime
        newAttributes ==
            Attrs(AnimatedValue(f.startValue.charisma, f.target.charisma, elapsed),
                  AnimatedValue(f.startValue.dumbness, f.target.dumbness, elapsed),
                  AnimatedValue(f.startValue.single, f.target.single, elapsed))
    IN
    /\ f \in attributeFrames
    /\ FirstDue(f)
    /\ displayAttributes' = newAttributes
    /\ currentAttributesRef' = newAttributes
    /\ IF elapsed < DURATION
       THEN /\ rafIds' = rafIds + 1
            /\ attributeFrames' = (attributeFrames \ {f})
                                    \cup {NewFrame(rafIds + 1, Some(startTime),
                                                   f.startValue, f.target)}
       ELSE /\ attributeFrames' = attributeFrames \ {f}
            /\ UNCHANGED rafIds
    /\ UNCHANGED <<propVars, displayScore, currentScoreRef, animationFrameRef,
                   scoreCleanup, rafTime, scoreFrames,
                   envVars, webcamVars, appVars, histVars, pureVars>>

NextAnimator ==
    \/ \E newScore \in AnimatorScores, newFinal \in BOOLEAN,
          attributesUpdate \in {Null} \cup {Some(a) : a \in AnimatorAttributes} :
            Render(newScore, newFinal, attributesUpdate)
    \/ \E d \in FrameSteps : AnimationFrame(d)
    \/ \E f \in scoreFrames : Animate(f)
    \/ \E f \in attributeFrames : AnimateAttributes(f)

SpecAnimator == Init /\ [][NextAnimator]_vars

\* The browser keeps refreshing the display: a frame follows while callbacks
\* are pending, and a pending callback of the frame is run.
SpecAnimatorFair ==
    /\ SpecAnimator
    /\ WF_vars(\E d \in FrameSteps : AnimationFrame(d))
    /\ WF_vars(\E f \in scoreFrames : Animate(f))
    /\ WF_vars(\E f \in attributeFrames : AnimateAttributes(f))

\* ================================================================ claims
\* The step is a poll callback that received its detections.
PollResultStep == inflight' # inflight /\ lastTick'.dateNow # Null
                  /\ lastTick'.outcome # "error"

InitialScoreOf(p) == calculateRawFundabilityScore(p)
TargetScoreOf(p) == calculateDeterministicTargetScore(InitialScoreOf(p), p)
InitialAttributesOf(p) == calculateAttributes(p)
TargetAttributesOf(p) ==
    calculateDeterministicAttributeTargets(InitialAttributesOf(p), p)

RefsAllNull ==
    /\ initialAnimatedScoreRef = Null
    /\ finalAnimatedTargetScoreRef = Null
    /\ initialAttributesRef = Null
    /\ finalAttributesRef = Null

\* Under Spec no poll callback ever takes the branch of lines 372-384:
\* finalScoreCalculated is never set, no onScoreUpdate call has isFinal = true
\* and isAnalysisComplete is never set.  (The callback computes timeElapsed
\* from the analysisStartTime of its render, which is null.)
FinalisationNeverHappens ==
    /\ ~finalScoreCalculated
    /\ session.finals = 0
    /\ lastTick.outcome # "final"
    /\ ~isAnalysisComplete
    /\ (closure # Null =>
            /\ Get(closure).analysisStartTime = Null
            /\ ~Get(closure).finalScoreCalculated
            /\ ~Get(closure).isAnalysisComplete)

\* C1: in a run in which every poll callback since the first face had a face,
\* a callback whose time since the start of the run is at least 5000 ms has
\* made the run's one and only isFinal = true call (and no run has two).
C1_FinalAtDuration ==
    /\ session.finals <= 1
    /\ (/\ session.clean
        /\ session.start # Null
        /\ lastTick.person # Null
        /\ Get(lastTick.currentTime) - Get(session.start) >= ANALYSIS_DURATION_MS)
       => session.finals = 1

\* C3: within one run, once the four refs are written no poll callback
\* changes any of them.
C3_TargetsWrittenOnce ==
    [][(initialAnimatedScoreRef # Null /\ starts' = starts)
        => UNCHANGED refVars]_vars

\* C5: for every poll callback after the first one with a face, started
\* within the run, the elapsed time it uses is its currentTime minus the
\* timestamp of the run's first face, and it is not less than the elapsed
\* time the callback before it used.
C5_ElapsedFromFirstDetection ==
    [][(/\ PollResultStep
        /\ starts' = starts
        /\ session.detected >= 1
        /\ lastTick'.timeElapsed # Null
        /\ Get(lastTick'.currentTime) >= Get(session.start))
       => /\ Get(lastTick'.timeElapsed)
                = Get(lastTick'.currentTime) - Get(session.start)
          /\ (lastTick.timeElapsed # Null
                => Get(lastTick'.timeElapsed) >= Get(lastTick.timeElapsed))]_vars

\* C6: a poll callback with a face that is not the first of its run and whose
\* time since the start of the run is in [0, 5000) makes exactly one call,
\* not final, carrying round(initial + (target - initial) * elapsed / 5000)
\* of the values in the refs, for the score and each attribute.
C6_EmitsInterpolation ==
    LET elapsed == Get(lastTick.currentTime) - Get(session.start)
        i == Get(initialAnimatedScoreRef)
        t == Get(finalAnimatedTargetScoreRef)
        blend(a, b) == MathRound(a * ANALYSIS_DURATION_MS + (b - a) * elapsed,
                                 ANALYSIS_DURATION_MS)
        iA == Get(initialAttributesRef)
        tA == Get(finalAttributesRef)
    IN  (/\ session.detected >= 2
         /\ lastTick.person # Null
         /\ elapsed >= 0
         /\ elapsed < ANALYSIS_DURATION_MS)
        => lastTick.calls =
             << OnUpdate(blend(i, t), FALSE,
                         Some([charisma |-> blend(iA.charisma, tA.charisma),
                               dumbness |-> blend(iA.dumbness, tA.dumbness),
                               single |-> blend(iA.single, tA.single)])) >>

\* C7: the first poll callback with a face after a startFaceDetection (of a
\* component that is mounted) sets analysisStartTime to the clock, writes
\* the four refs from that face and makes exactly one call, not final,
\* carrying the initial score and the initial attributes of that face.
C7_FirstDetectionStartsRun ==
    [][(PollResultStep /\ mounted /\ session.detected = 0 /\ session'.detected = 1)
       => LET p == Get(lastTick'.person)
          IN  /\ analysisStartTime' = Some(now)
              /\ ~finalScoreCalculated'
              /\ initialAnimatedScoreRef' = Some(InitialScoreOf(p))
              /\ finalAnimatedTargetScoreRef' = Some(TargetScoreOf(p))
              /\ initialAttributesRef' = Some(InitialAttributesOf(p))
              /\ finalAttributesRef' = Some(TargetAttributesOf(p))
              /\ lastTick'.calls = << OnUpdate(InitialScoreOf(p), FALSE,
                                               Some(InitialAttributesOf(p))) >>]_vars

C7_Witness ==
    /\ session.detected = 1
    /\ lastTick.person = Some(SnapA)
    /\ analysisStartTime = lastTick.dateNow
    /\ initialAnimatedScoreRef = Some(73)
    /\ finalAnimatedTargetScoreRef = Some(59)
    /\ Len(lastTick.calls) = 1
    /\ score = Some(73)

\* C8: a poll callback whose detection list is empty changes no state of
\* WebcamComponent or App and makes no call; and as long as no callback has
\* had a face since startFaceDetection, analysisStartTime and the refs are
\* null and no call has been made (nor, if no earlier run had a face, has
\* App received a score).
C8_EmptyTickDoesNothing ==
    /\ [](session.detected = 0
            => /\ analysisStartTime = Null
               /\ RefsAllNull
               /\ session.updates = 0
               /\ session.finals = 0
               /\ (session.previous = Null => score = Null /\ attributes = Null))
    /\ [][(PollResultStep /\ lastTick'.person = Null)
            => /\ UNCHANGED <<webcamVars, appVars>>
               /\ lastTick'.calls = <<>>]_vars

C8_Witness ==
    /\ lastTick.outcome = "empty"
    /\ session.detected = 0
    /\ ~session.clean
    /\ now >= ANALYSIS_DURATION_MS
    /\ score = Null

\* C9: startFaceDetection leaves analysisStartTime null, finalScoreCalculated
\* false and the four refs null; the first poll callback with a face after
\* it writes the refs from that face alone and uses an elapsed time of 0.
C9_ResetStartsAfresh ==
    [][/\ (starts' # starts
            => /\ analysisStartTime' = Null
               /\ ~finalScoreCalculated'
               /\ RefsAllNull'
               /\ session'.detected = 0)
       /\ (PollResultStep /\ session.detected = 0 /\ session'.detected = 1
            => LET p == Get(lastTick'.person)
               IN  /\ initialAnimatedScoreRef' = Some(InitialScoreOf(p))
                   /\ finalAnimatedTargetScoreRef' = Some(TargetScoreOf(p))
                   /\ initialAttributesRef' = Some(InitialAttributesOf(p))
                   /\ finalAttributesRef' = Some(TargetAttributesOf(p))
                   /\ lastTick'.timeElapsed = Some(0))]_vars

C9_Witness ==
    /\ starts = 2
    /\ session.previous = Some(SnapA)
    /\ session.person = Some(SnapB)
    /\ session.detected = 1
    /\ initialAnimatedScoreRef = Some(InitialScoreOf(SnapB))
    /\ finalAnimatedTargetScoreRef = Some(TargetScoreOf(SnapB))
    /\ analysisStartTime = session.start

\* C10: once App has accepted a final update, no call of onScoreUpdate
\* changes the score, the feedback or the attributes.
C10_FinalIsFrozen ==
    [][isAnalysisComplete => UNCHANGED <<score, feedback, attributes>>]_vars

\* C11: every score and every attribute passed to onScoreUpdate, in a final
\* or a non-final call, is an integer in 0..100, whatever initial values in
\* 0..100, targets within their clamp ranges and elapsed time the call is
\* computed from.
C11_EmittedValuesInRange ==
    (fnCall.fn = "EmittedUpdate" /\ fnOut # Null)
    => LET u == Get(fnOut)
           a == Get(u.attributes)
       IN  /\ u.score \in 0..100
           /\ a.charisma \in 0..100
           /\ a.dumbness \in 0..100
           /\ a.single \in 0..100

C11_Witness ==
    /\ fnCall.fn = "EmittedUpdate"
    /\ fnCall.args[5] = ANALYSIS_DURATION_MS - 1
    /\ fnCall.args[3] = Attrs(0, 0, 0)
    /\ fnOut # Null
    /\ ~Get(fnOut).isFinal
    /\ Get(Get(fnOut).attributes).charisma = 95

\* C12: once ScoreDisplay has been rendered with isFinalized, the displayed
\* score and the displayed attributes are the ones of that render and stay
\* so: no callback requested before that render changes them.
C12_FinalCancelsTransitions ==
    pFinalized
    => /\ displayScore = Get(pScore)
       /\ (pAttributes # Null => displayAttributes = Get(pAttributes))

\* C13: at most one callback of a score transition and at most one callback
\* of an attributes transition is pending: a render with new props cancels
\* the transition under way before it starts its own.
C13_OneTransitionPending ==
    /\ Cardinality(scoreFrames) <= 1
    /\ Cardinality(attributeFrames) <= 1

\* C14: a poll callback that started before the latest startFaceDetection
\* and receives its detections after it changes no state of WebcamComponent
\* or App and makes no call.
C14_StaleResultDropped ==
    [][(PollResultStep /\ lastTick'.timer # detectionIntervalRef)
        => /\ UNCHANGED <<webcamVars, appVars>>
           /\ lastTick'.calls = <<>>]_vars

\* C15: at most one poll timer is active, it is the one startFaceDetection
\* set last, and none is active once the component is unmounted; a poll
\* callback only ever starts on that timer.
C15_OnePollTimer ==
    /\ [](/\ Cardinality(DOMAIN timers) <= 1
          /\ \A t \in DOMAIN timers : detectionIntervalRef = Some(t)
          /\ (~mounted => DOMAIN timers = {}))
    /\ [][\A req \in inflight' \ inflight :
            /\ detectionIntervalRef = Some(req.timer)
            /\ mounted]_vars

C15_Witness ==
    /\ starts = 2
    /\ ~mounted
    /\ DOMAIN timers = {}
    /\ detectionIntervalRef = Some(2)
    /\ \E req \in inflight : req.timer = 2

\* The step is a poll callback that threw.
PollThrowsStep ==
    /\ Cardinality(inflight') < Cardinality(inflight)
    /\ lastTick'.outcome = "error"

\* C16: a poll callback that throws changes no state of WebcamComponent or
\* App, makes no call and leaves the timer running; a callback with a face
\* that follows it makes its one call as usual.
C16_ThrowRecovered ==
    [][/\ PollThrowsStep
            => /\ UNCHANGED <<webcamVars, appVars, timers>>
               /\ lastTick'.calls = <<>>
       /\ (lastTick.outcome = "error" /\ PollResultStep /\ lastTick'.person # Null)
            => /\ lastTick'.outcome = "update"
               /\ Len(lastTick'.calls) = 1]_vars

C16_Witness ==
    /\ lastTick.outcome = "error"
    /\ analysisStartTime # Null
    /\ score = Some(73)
    /\ initialAnimatedScoreRef = Some(73)
    /\ lastTick.timer = detectionIntervalRef
    /\ DOMAIN timers # {}

\* C17: the progress a poll callback interpolates with is within [0, 1],
\* also for a callback that started before the run's start timestamp was
\* taken by another callback.
C17_ProgressInUnitInterval ==
    lastTick.outcome = "update"
    => /\ ProgressNum(Get(lastTick.timeElapsed)) >= 0
       /\ ProgressNum(Get(lastTick.timeElapsed)) <= ANALYSIS_DURATION_MS

C17_Witness ==
    /\ lastTick.outcome = "update"
    /\ session.detected = 2
    /\ Get(lastTick.currentTime) < Get(session.start)
    /\ ProgressNum(Get(lastTick.timeElapsed)) = 0

\* C18: for every initial score in 0..100 and every shift (with or without
\* the drift of 5) the target score is an integer in 15..90; the attribute
\* targets are integers in 10..95 (charisma), 5..90 (dumbness) and 15..95
\* (single).
C18_TargetsWithinLimits ==
    /\ (fnCall.fn = "TargetScoreFromShift" /\ fnOut # Null)
        => Get(fnOut) \in 15..90
    /\ (fnCall.fn = "AttributeTargetsFromShifts" /\ fnOut # Null)
        => /\ Get(fnOut).charisma \in 10..95
           /\ Get(fnOut).dumbness \in 5..90
           /\ Get(fnOut).single \in 15..95

C18_Witness ==
    /\ fnCall.fn = "TargetScoreFromShift"
    /\ fnCall.args = <<100, 3 * Micro - 1, Milli \div 2 + 1>>
    /\ fnOut = Some(90)

\* C19: every integer score in 0..100 lies in exactly one of the six bands
\* of feedbackMessages, and getFeedbackMessage returns the message of that
\* band, never the default "Analyzing...".
C19_ExactlyOneBand ==
    (fnCall.fn = "getFeedbackMessage" /\ fnOut # Null)
    => LET s == fnCall.args[1]
           matching == {i \in DOMAIN feedbackMessages :
                            /\ feedbackMessages[i].minScore <= s
                            /\ s <= feedbackMessages[i].maxScore}
       IN  /\ Len(feedbackMessages) = 6
           /\ Cardinality(matching) = 1
           /\ \A i \in matching : Get(fnOut) = feedbackMessages[i].message
           /\ Get(fnOut) # "Analyzing..."

C19_Witness ==
    /\ fnCall.fn = "getFeedbackMessage"
    /\ fnCall.args[1] = 21
    /\ fnOut = Some("VCs might fund you... if you wore a paper bag.")

\* C20: for all integers a and b in 0..100, interpolating from a to b gives a
\* at progress 0 and b at progress 1, for the score and for each of the
\* three attributes.
C20_InterpolationEndpoints ==
    (fnCall.fn = "interpolate" /\ fnOut # Null)
    => /\ Get(fnOut).score0 = fnCall.args[1]
       /\ Get(fnOut).score1 = fnCall.args[2]
       /\ Get(fnOut).attributes0 = fnCall.args[3]
       /\ Get(fnOut).attributes1 = fnCall.args[4]

C20_Witness ==
    /\ fnCall.fn = "interpolate"
    /\ fnCall.args[1] = 100
    /\ fnCall.args[2] = 0
    /\ fnOut # Null
    /\ Get(fnOut).score1 = 0
    /\ Get(fnOut).attributes1 = Attrs(0, 100, 100)

\* The display has arrived at the props of the latest render and no
\* callback is pending.
Settled ==
    /\ pScore # Null
    /\ displayScore = Get(pScore)
    /\ scoreFrames = {}
    /\ (pAttributes # Null => displayAttributes = Get(pAttributes))
    /\ attributeFrames = {}

\* C21: after a render with a score (and attributes) and isFinalized false,
\* unless another render follows, the displayed score and the displayed
\* attributes come to equal the ones of that render with no callback left
\* pending, and stay so until the next render.
C21_TransitionCompletes ==
    /\ \A r \in 1..MaxRenders :
            (renders = r /\ ~pFinalized) ~> (renders # r \/ Settled)
    /\ [][(Settled /\ ~pFinalized /\ renders' = renders) => Settled']_vars

C21_Witness ==
    /\ renders = 2
    /\ ~pFinalized
    /\ Settled
    /\ displayScore = 80
    /\ displayAttributes = Attrs(77, 51, 0)
    /\ rafIds > 6

\* C23: every displayed score a callback of a score transition writes lies
\* between the score displayed when the transition started and the score
\* of the render that started it (inclusive); the displayed score is always
\* in 0..100.
C23_ScoreBetweenStartAndTarget ==
    /\ [](displayScore \in 0..100)
    /\ [][\A f \in scoreFrames :
            (renders' = renders /\ f \notin scoreFrames')
            => /\ Min(f.startValue, f.target) <= displayScore'
               /\ displayScore' <= Max(f.startValue, f.target)]_vars

C23_Witness ==
    /\ displayScore = 43
    /\ \E f \in scoreFrames :
            /\ f.startValue = 80
            /\ f.target = 30
            /\ f.startTime # Null

RefsAllSet ==
    /\ initialAnimatedScoreRef # Null
    /\ finalAnimatedTargetScoreRef # Null
    /\ initialAttributesRef # Null
    /\ finalAttributesRef # Null

\* C22: the four refs are all null or all set, and all set whenever
\* analysisStartTime is set; a poll callback that took the final branch
\* found them set, so did not compute a fresh score or fresh attributes.
C22_RefsAllOrNone ==
    /\ RefsAllNull \/ RefsAllSet
    /\ (analysisStartTime # Null => RefsAllSet)
    /\ (lastTick.outcome = "final" => RefsAllSet)

C22_Witness ==
    /\ starts = 2
    /\ analysisStartTime # Null
    /\ RefsAllSet
    /\ session.previous # Null
    /\ session.detected = 2

\* C24: isAnalysisComplete is never cleared; and once it is set, the calls
\* of a run that startFaceDetection began afterwards (a run that has made
\* no final call itself) leave the score, the feedback and the attributes
\* as they were.
C24_FinalSurvivesReset ==
    [][isAnalysisComplete
        => /\ isAnalysisComplete'
           /\ (starts' = starts /\ session.finals = 0)
                => UNCHANGED <<score, feedback, attributes>>]_vars

====
